---- MODULE Spec2Model ----
(***************************************************************************)
(* fmaps.py: populate the IntendedFor key of the paired (dir-AP, dir-PA)   *)
(* field-map JSON side-cars of every subject/session with the func / dwi   *)
(* files the manifests list for that subject and session.                  *)
(*                                                                         *)
(* Strings are sequences of characters; a few constant path fragments are  *)
(* kept as single tokens.  A JSON file is modelled by its token content:   *)
(* the indentation it is written with and the sequence of key/value        *)
(* members of its top-level object, duplicates included.                   *)
(*                                                                         *)
(* Spec        a run of the script over a source tree                      *)
(* SpecFilter  the two manifest filters over every short manifest text     *)
(* SpecMerge   add_intended_for applied twice to every short JSON text     *)
(***************************************************************************)
EXTENDS Integers, Sequences, FiniteSets, TLC

VARIABLES
    tree,       \* directory tree under SOURCE_PATH: entry -> [isdir, entries]
    lists,      \* the manifest files: path -> [exists, text]
    fs,         \* the field-map JSON files: path -> file content
    fs0,        \* history: fs when the run started
    fs1,        \* history (SpecMerge): fs before the latest add_intended_for call
    pc,         \* position in the module-level script
    sub_list,   \* os.listdir(SOURCE_PATH)
    sub_i,      \* index of the current element of sub_list
    ses_list,   \* os.listdir(SOURCE_PATH/sub)
    ses_i,      \* index of the current element of ses_list
    sub,        \* loop variable sub / argument sub_id
    ses,        \* loop variable ses / argument ses_id
    funcs,      \* result of get_func_list
    dwis,       \* result of get_dwi_list
    io          \* history: file operations performed so far, in order

vars == <<tree, lists, fs, fs0, fs1, pc, sub_list, sub_i, ses_list, ses_i,
          sub, ses, funcs, dwis, io>>

----------------------------------------------------------------------------
(* Bounds *)

\* longest manifest text explored by SpecFilter
MaxLen == 5
\* most members in the JSON object text explored by SpecMerge
MaxPairs == 3
\* longest reference list explored by SpecMerge
MaxRefs == 2
\* most field-map JSON files present in the tree explored by Spec
MaxRecords == 4

----------------------------------------------------------------------------
(* Program constants *)

DWI_LIST_FILE == <<"TFS_dwi_list.txt">>
FUNC_LIST_FILE == <<"TFS_func_list.txt">>
SOURCE_PATH == <<"testing/TFS/bids/sourcedata">>
IntendedFor == "IntendedFor"
indent == 4

----------------------------------------------------------------------------
(* Strings *)

LF == "\n"
CR == "\r"
SEP == "/"

\* the characters str.splitlines() breaks a line at, among those modelled
LineBoundaries == {LF, CR}

\* open(..., 'r').read(): universal newlines, "\r\n" and "\r" are read as "\n"
RECURSIVE read(_)
read(raw) ==
    IF raw = <<>> THEN <<>>
    ELSE IF Head(raw) = CR
         THEN <<LF>> \o read(IF Len(raw) > 1 /\ raw[2] = LF
                              THEN SubSeq(raw, 3, Len(raw))
                              ELSE Tail(raw))
         ELSE <<Head(raw)>> \o read(Tail(raw))

\* index of the first line boundary of s at or after i, 0 when there is none
RECURSIVE find_boundary(_, _)
find_boundary(s, i) ==
    IF i > Len(s) THEN 0
    ELSE IF s[i] \in LineBoundaries THEN i
    ELSE find_boundary(s, i + 1)

\* str.splitlines(): no empty last line after a final boundary
RECURSIVE splitlines(_)
splitlines(s) ==
    IF s = <<>> THEN <<>>
    ELSE LET k == find_boundary(s, 1) IN
         IF k = 0 THEN <<s>>
         ELSE LET w == IF s[k] = CR /\ k < Len(s) /\ s[k + 1] = LF THEN 2 ELSE 1
              IN  <<SubSeq(s, 1, k - 1)>> \o splitlines(SubSeq(s, k + w, Len(s)))

\* str.rfind(c) over p[1..i], as an index from 1; 0 when c does not occur
RECURSIVE rfind(_, _, _)
rfind(p, c, i) ==
    IF i = 0 THEN 0
    ELSE IF p[i] = c THEN i
    ELSE rfind(p, c, i - 1)

\* faulty variant: the path is matched whole, directories included
basename_whole(p) == p

\* os.path.basename (posixpath): p[p.rfind('/') + 1:]
basename(p) == SubSeq(p, rfind(p, SEP, Len(p)) + 1, Len(p))

\* s starts with t at position i
starts_at(t, s, i) ==
    /\ i + Len(t) - 1 <= Len(s)
    /\ SubSeq(s, i, i + Len(t) - 1) = t

\* the Python expression  t in s  for strings, scanning start positions from i
RECURSIVE contains_from(_, _, _)
contains_from(t, s, i) ==
    IF i + Len(t) - 1 > Len(s) THEN FALSE
    ELSE IF starts_at(t, s, i) THEN TRUE
    ELSE contains_from(t, s, i + 1)

contains(t, s) == contains_from(t, s, 1)

----------------------------------------------------------------------------
(* Manifest filter *)

\* faulty variant: entries are put in front of the list
RECURSIVE func_loop_reversed(_, _, _, _)
func_loop_reversed(func_list, sub_id, ses_id, acc) ==
    IF func_list = <<>> THEN acc
    ELSE LET func == basename(Head(func_list)) IN
         func_loop_reversed(Tail(func_list), sub_id, ses_id,
                            IF contains(sub_id, func) /\ contains(ses_id, func)
                            THEN <<ses_id \o <<SEP>> \o func>> \o acc
                            ELSE acc)

\* the for loop of get_func_list
RECURSIVE func_loop(_, _, _, _)
func_loop(func_list, sub_id, ses_id, acc) ==
    IF func_list = <<>> THEN acc
    ELSE LET func == basename(Head(func_list)) IN
         func_loop(Tail(func_list), sub_id, ses_id,
                   IF contains(sub_id, func) /\ contains(ses_id, func)
                   THEN Append(acc, ses_id \o <<SEP>> \o func)
                   ELSE acc)

get_func_list(raw, sub_id, ses_id) ==
    func_loop(splitlines(read(raw)), sub_id, ses_id, <<>>)

\* the for loop of get_dwi_list
RECURSIVE dwi_loop(_, _, _, _)
dwi_loop(dwi_list, sub_id, ses_id, acc) ==
    IF dwi_list = <<>> THEN acc
    ELSE LET dwi_file == basename(Head(dwi_list)) IN
         dwi_loop(Tail(dwi_list), sub_id, ses_id,
                  IF contains(sub_id, dwi_file) /\ contains(ses_id, dwi_file)
                  THEN Append(acc, ses_id \o <<SEP>> \o dwi_file)
                  ELSE acc)

get_dwi_list(raw, sub_id, ses_id) ==
    dwi_loop(splitlines(read(raw)), sub_id, ses_id, <<>>)

----------------------------------------------------------------------------
(* JSON files *)

Absent == [kind |-> "absent", indent |-> 0, pairs |-> <<>>]
\* content json.load rejects (JSONDecodeError), a truncated file included
Garbage == [kind |-> "garbage", indent |-> 0, pairs |-> <<>>]
\* valid JSON whose top-level value is no object
Array == [kind |-> "array", indent |-> 0, pairs |-> <<>>]

exists(files, path) == files[path].kind # "absent"

\* d[k] = v on a dict, kept as its members in insertion order
RECURSIVE dict_set(_, _, _)
dict_set(d, k, v) ==
    IF d = <<>> THEN << <<k, v>> >>
    ELSE IF Head(d)[1] = k THEN << <<k, v>> >> \o Tail(d)
    ELSE <<Head(d)>> \o dict_set(Tail(d), k, v)

\* json.load of an object text: members are stored one by one, a repeated
\* key keeps its first position and takes its last value
RECURSIVE load_members(_, _)
load_members(pairs, d) ==
    IF pairs = <<>> THEN d
    ELSE load_members(Tail(pairs), dict_set(d, Head(pairs)[1], Head(pairs)[2]))

json_load(content) == load_members(content.pairs, <<>>)

\* json.dump(json_dict, file_json, indent=4)
json_dump(json_dict) == [kind |-> "object", indent |-> indent, pairs |-> json_dict]

\* faulty variant: the list is appended to the value already there
set_intended_for_append(json_dict, refs) ==
    LET old == SelectSeq(json_dict, LAMBDA m : m[1] = IntendedFor) IN
    dict_set(json_dict, IntendedFor,
             (IF old = <<>> THEN <<>> ELSE old[1][2]) \o refs)

\* faulty variant: a value already there is kept (dict.setdefault)
set_intended_for_default(json_dict, refs) ==
    IF \E i \in DOMAIN json_dict : json_dict[i][1] = IntendedFor
    THEN json_dict
    ELSE dict_set(json_dict, IntendedFor, refs)

\* faulty variant: a new dict with the one key is written
set_intended_for_only(json_dict, refs) == << <<IntendedFor, refs>> >>

\* json_dict['IntendedFor'] = [func for func in funcs]
set_intended_for(json_dict, refs) == dict_set(json_dict, IntendedFor, refs)

Event(op, path) == [op |-> op, path |-> path]

\* what the environment lets the second open() and the dump do
WriteOutcomes == {"ok", "open_fails", "dump_fails"}

\* add_intended_for(json_file, funcs) on the files `files`; w is the outcome
\* the environment gives the write.  Result: the files afterwards, the file
\* operations performed, and whether an exception left the function.
add_intended_for(files, json_file, refs, w) ==
    LET content == files[json_file] IN
    IF content.kind = "absent"
    THEN \* open(json_file, 'r') raises FileNotFoundError
         [fs |-> files, io |-> <<Event("raise", json_file)>>, raised |-> TRUE]
    ELSE IF content.kind = "garbage"
    THEN \* json.load raises JSONDecodeError
         [fs |-> files,
          io |-> <<Event("load", json_file), Event("raise", json_file)>>,
          raised |-> TRUE]
    ELSE IF content.kind = "array"
    THEN \* the item assignment raises TypeError
         [fs |-> files,
          io |-> <<Event("load", json_file), Event("raise", json_file)>>,
          raised |-> TRUE]
    ELSE IF w = "open_fails"
    THEN \* open(json_file, 'w') raises OSError, the file is as it was
         [fs |-> files,
          io |-> <<Event("load", json_file), Event("raise", json_file)>>,
          raised |-> TRUE]
    ELSE IF w = "dump_fails"
    THEN \* the file was truncated by open and the dump did not complete
         [fs |-> [files EXCEPT ![json_file] = Garbage],
          io |-> <<Event("load", json_file), Event("truncate", json_file),
                   Event("raise", json_file)>>,
          raised |-> TRUE]
    ELSE [fs |-> [files EXCEPT ![json_file] =
                      json_dump(set_intended_for(json_load(content), refs))],
          io |-> <<Event("load", json_file), Event("write", json_file)>>,
          raised |-> FALSE]

----------------------------------------------------------------------------
(* The source tree *)

SubjectNames == { <<"a">>, <<"a", "a">> }
SessionNames == { <<"1">>, <<"1", "a">> }

AP_FMRI == "_acq-fMRI_dir-AP_epi.json"
PA_FMRI == "_acq-fMRI_dir-PA_epi.json"
AP_DWI == "_acq-dwi_dir-AP_epi.json"
PA_DWI == "_acq-dwi_dir-PA_epi.json"
Suffixes == {AP_FMRI, PA_FMRI, AP_DWI, PA_DWI}

\* fmap_files_dir = SOURCE_PATH + '/' + sub + '/' + ses + '/fmap'
fmap_files_dir(s, e) == SOURCE_PATH \o <<SEP>> \o s \o <<SEP>> \o e \o <<"/fmap">>

\* fmap_files_dir + '/' + sub + '_' + ses + '_acq-..._epi.json'
fmap_file(s, e, suffix) ==
    fmap_files_dir(s, e) \o <<SEP>> \o s \o <<"_">> \o e \o <<suffix>>

\* an entry of SOURCE_PATH: a plain file, or a directory with its entries
DirStates == {[isdir |-> FALSE, entries |-> {}]}
             \cup {[isdir |-> TRUE, entries |-> E] : E \in SUBSET SessionNames}

Units(t) == {u \in SubjectNames \X SessionNames :
                u[1] \in DOMAIN t /\ u[2] \in t[u[1]].entries}

\* the trees explored: one entry with any sessions, or several entries
\* with at most one session each
Trees == {t \in UNION {[D -> DirStates] : D \in SUBSET SubjectNames} :
             Cardinality(DOMAIN t) > 1 =>
                 \A s \in DOMAIN t : \A e1, e2 \in t[s].entries : e1 = e2}

UnitPaths(t) == {fmap_file(u[1], u[2], x) : u \in Units(t), x \in Suffixes}

\* the orders os.listdir may return the entries S in
Orders(S) == {q \in [1..Cardinality(S) -> S] : \A i, j \in DOMAIN q : q[i] = q[j] => i = j}

----------------------------------------------------------------------------
(* The module-level script, lines 149-183 *)

\* faulty variant: the exception is swallowed and the script goes on
after_raise_continue(next) == next

\* an exception nothing catches ends the script
after_raise(next) == "aborted"

Raise(path, next) ==
    /\ io' = Append(io, Event("raise", path))
    /\ pc' = after_raise(next)

\* faulty variant: one of the two is enough
both_exist_or(files, ap, pa) == exists(files, ap) \/ exists(files, pa)

\* os.path.exists(fmap_file_ap) and os.path.exists(fmap_file_pa)
both_exist(files, ap, pa) == exists(files, ap) /\ exists(files, pa)

\* sub_list = os.listdir(SOURCE_PATH)
ListSubjects ==
    /\ pc = "sub_list"
    /\ \E q \in Orders(DOMAIN tree) : sub_list' = q
    /\ sub_i' = 0
    /\ pc' = "for_sub"
    /\ UNCHANGED <<tree, lists, fs, fs0, fs1, ses_list, ses_i, sub, ses, funcs, dwis, io>>

\* for sub in sub_list:
NextSubject ==
    /\ pc = "for_sub"
    /\ IF sub_i < Len(sub_list)
       THEN /\ sub_i' = sub_i + 1
            /\ sub' = sub_list[sub_i + 1]
            /\ pc' = "ses_list"
       ELSE /\ pc' = "done"
            /\ UNCHANGED <<sub_i, sub>>
    /\ UNCHANGED <<tree, lists, fs, fs0, fs1, sub_list, ses_list, ses_i, ses, funcs, dwis, io>>

\* ses_list = os.listdir(SOURCE_PATH + '/' + sub)
ListSessions ==
    /\ pc = "ses_list"
    /\ IF tree[sub].isdir
       THEN /\ \E q \in Orders(tree[sub].entries) : ses_list' = q
            /\ ses_i' = 0
            /\ pc' = "for_ses"
            /\ UNCHANGED io
       ELSE /\ Raise(SOURCE_PATH \o <<SEP>> \o sub, "for_sub")
            /\ UNCHANGED <<ses_list, ses_i>>
    /\ UNCHANGED <<tree, lists, fs, fs0, fs1, sub_list, sub_i, sub, ses, funcs, dwis>>

\* for ses in ses_list:
NextSession ==
    /\ pc = "for_ses"
    /\ IF ses_i < Len(ses_list)
       THEN /\ ses_i' = ses_i + 1
            /\ ses' = ses_list[ses_i + 1]
            /\ pc' = "get_func_list"
       ELSE /\ pc' = "for_sub"
            /\ UNCHANGED <<ses_i, ses>>
    /\ UNCHANGED <<tree, lists, fs, fs0, fs1, sub_list, sub_i, ses_list, sub, funcs, dwis, io>>

\* funcs = get_func_list(FUNC_LIST_FILE, sub, ses), the paths of the fMRI
\* pair, and  if os.path.exists(fmap_file_ap) and os.path.exists(fmap_file_pa):
GetFuncList ==
    /\ pc = "get_func_list"
    /\ IF lists[FUNC_LIST_FILE].exists
       THEN /\ funcs' = get_func_list(lists[FUNC_LIST_FILE].text, sub, ses)
            /\ pc' = IF both_exist(fs, fmap_file(sub, ses, AP_FMRI),
                                   fmap_file(sub, ses, PA_FMRI))
                     THEN "fmri_ap" ELSE "get_dwi_list"
            /\ UNCHANGED io
       ELSE /\ Raise(FUNC_LIST_FILE, "get_dwi_list")
            /\ UNCHANGED funcs
    /\ UNCHANGED <<tree, lists, fs, fs0, fs1, sub_list, sub_i, ses_list, ses_i, sub, ses, dwis>>

\* one add_intended_for call of the script, at position `at`
Call(at, json_file, refs, next) ==
    /\ pc = at
    /\ \E w \in WriteOutcomes :
          LET r == add_intended_for(fs, json_file, refs, w) IN
          /\ fs' = r.fs
          /\ io' = io \o r.io
          /\ pc' = IF r.raised THEN after_raise(next) ELSE next
    /\ UNCHANGED <<tree, lists, fs0, fs1, sub_list, sub_i, ses_list, ses_i,
                   sub, ses, funcs, dwis>>

\* add_intended_for(... + '_acq-fMRI_dir-AP_epi.json', funcs)
FmriAP == Call("fmri_ap", fmap_file(sub, ses, AP_FMRI), funcs, "fmri_pa")

\* faulty variant: the second call names the dir-AP file again
FmriPA_ap == Call("fmri_pa", fmap_file(sub, ses, AP_FMRI), funcs, "get_dwi_list")

\* add_intended_for(... + '_acq-fMRI_dir-PA_epi.json', funcs)
FmriPA == Call("fmri_pa", fmap_file(sub, ses, PA_FMRI), funcs, "get_dwi_list")

\* dwis = get_dwi_list(DWI_LIST_FILE, sub, ses), the paths of the dwi pair,
\* and  if os.path.exists(fmap_file_ap) and os.path.exists(fmap_file_pa):
GetDwiList ==
    /\ pc = "get_dwi_list"
    /\ IF lists[DWI_LIST_FILE].exists
       THEN /\ dwis' = get_dwi_list(lists[DWI_LIST_FILE].text, sub, ses)
            /\ pc' = IF both_exist(fs, fmap_file(sub, ses, AP_DWI),
                                   fmap_file(sub, ses, PA_DWI))
                     THEN "dwi_ap" ELSE "for_ses"
            /\ UNCHANGED io
       ELSE /\ Raise(DWI_LIST_FILE, "for_ses")
            /\ UNCHANGED dwis
    /\ UNCHANGED <<tree, lists, fs, fs0, fs1, sub_list, sub_i, ses_list, ses_i, sub, ses, funcs>>

\* add_intended_for(... + '_acq-dwi_dir-AP_epi.json', dwis)
DwiAP == Call("dwi_ap", fmap_file(sub, ses, AP_DWI), dwis, "dwi_pa")

\* faulty variant: the dwi record is given the func list
DwiPA_funcs == Call("dwi_pa", fmap_file(sub, ses, PA_DWI), funcs, "for_ses")

\* add_intended_for(... + '_acq-dwi_dir-PA_epi.json', dwis)
DwiPA == Call("dwi_pa", fmap_file(sub, ses, PA_DWI), dwis, "for_ses")

----------------------------------------------------------------------------
(* Spec: a run of the script over a source tree *)

\* values, as strings of characters
Number == <<"0", ".", "0", "5">>
OldRef == <<"1", SEP, "o">>
NewRef == <<"1", SEP, "n">>

\* a field-map side-car as the converter leaves it
RecordText ==
    [kind |-> "object", indent |-> 2,
     pairs |-> << <<"EchoTime", <<Number>> >>, <<IntendedFor, <<OldRef>> >> >>]

ManifestA == <<"1", SEP, "a", "1", LF, "a", "a", "1", "a">>
ManifestB == <<"a", "1", CR, LF, "a", "1">>
Missing == [exists |-> FALSE, text |-> <<>>]
Present(t) == [exists |-> TRUE, text |-> t]
\* both manifests present, or one of them missing
ListConfigs ==
    { [f \in {FUNC_LIST_FILE, DWI_LIST_FILE} |->
          IF f = FUNC_LIST_FILE THEN c[1] ELSE c[2]] :
      c \in { <<Present(ManifestA), Present(ManifestB)>>,
              <<Present(ManifestA), Missing>>,
              <<Missing, Present(ManifestB)>> } }

NoString == <<>>

\* the JSON files of the tree: at most MaxRecords exist, in session
\* directories of the tree, and at most one of them is corrupt
Init ==
    /\ tree \in Trees
    /\ lists \in ListConfigs
    /\ \E P \in SUBSET UnitPaths(tree) :
          /\ Cardinality(P) <= MaxRecords
          /\ \E G \in {{}} \cup {{g} : g \in P} :
                fs = [p \in UnitPaths(tree) |->
                         IF p \in G THEN Garbage
                         ELSE IF p \in P THEN RecordText
                         ELSE Absent]
    /\ fs0 = fs
    /\ fs1 = <<>>
    /\ pc = "sub_list"
    /\ sub_list = <<>>
    /\ sub_i = 0
    /\ ses_list = <<>>
    /\ ses_i = 0
    /\ sub = NoString
    /\ ses = NoString
    /\ funcs = <<>>
    /\ dwis = <<>>
    /\ io = <<>>

Next ==
    \/ ListSubjects
    \/ NextSubject
    \/ ListSessions
    \/ NextSession
    \/ GetFuncList
    \/ FmriAP
    \/ FmriPA
    \/ GetDwiList
    \/ DwiAP
    \/ DwiPA

Spec == Init /\ [][Next]_vars

----------------------------------------------------------------------------
(* SpecFilter: one pass of the loop body over a tree without field maps,   *)
(* for every manifest text up to MaxLen characters                         *)

Alphabet == {"a", "1", SEP, LF, CR}
Texts == UNION {[1..n -> Alphabet] : n \in 0..MaxLen}

InitFilter ==
    /\ \E t \in Texts : lists = [f \in {FUNC_LIST_FILE, DWI_LIST_FILE} |-> Present(t)]
    /\ sub \in SubjectNames
    /\ ses \in SessionNames
    /\ tree = (sub :> [isdir |-> TRUE, entries |-> {ses}])
    /\ fs = [p \in UnitPaths(tree) |-> Absent]
    /\ fs0 = fs
    /\ fs1 = <<>>
    /\ pc = "get_func_list"
    /\ sub_list = <<sub>>
    /\ sub_i = 1
    /\ ses_list = <<ses>>
    /\ ses_i = 1
    /\ funcs = <<>>
    /\ dwis = <<>>
    /\ io = <<>>

NextFilter ==
    \/ GetFuncList
    \/ GetDwiList

SpecFilter == InitFilter /\ [][NextFilter]_vars

----------------------------------------------------------------------------
(* SpecMerge: add_intended_for applied twice to one JSON file, for every   *)
(* object text up to MaxPairs members and reference list up to MaxRefs     *)

Keys == {IntendedFor, "EchoTime", "PhaseEncodingDirection"}
RefNames == {OldRef, NewRef}
RefLists == UNION {[1..n -> RefNames] : n \in 0..MaxRefs}
Values == {<<>>, <<OldRef>>, <<Number>>}
Members == Keys \X Values
JsonTexts ==
    {Absent, Garbage, Array}
    \cup {[kind |-> "object", indent |-> i, pairs |-> m] :
             i \in {2, indent}, m \in UNION {[1..n -> Members] : n \in 0..MaxPairs}}

json_file == fmap_file(<<"a">>, <<"1">>, AP_FMRI)

InitMerge ==
    /\ fs \in [{json_file} -> JsonTexts]
    /\ funcs \in RefLists
    /\ fs0 = fs
    /\ fs1 = fs
    /\ pc = "merge"
    /\ tree = <<>>
    /\ lists = [f \in {FUNC_LIST_FILE, DWI_LIST_FILE} |-> Missing]
    /\ sub_list = <<>>
    /\ sub_i = 0
    /\ ses_list = <<>>
    /\ ses_i = 0
    /\ sub = NoString
    /\ ses = NoString
    /\ dwis = <<>>
    /\ io = <<>>

\* add_intended_for(json_file, funcs), and the same call once more
Merge ==
    /\ pc \in {"merge", "merged"}
    /\ \E w \in WriteOutcomes :
          LET r == add_intended_for(fs, json_file, funcs, w) IN
          /\ fs' = r.fs
          /\ io' = io \o r.io
          /\ pc' = IF r.raised THEN after_raise("merged")
                   ELSE IF pc = "merge" THEN "merged" ELSE "merged_twice"
    /\ fs1' = fs
    /\ UNCHANGED <<tree, lists, fs0, sub_list, sub_i, ses_list, ses_i,
                   sub, ses, funcs, dwis>>

NextMerge == Merge

SpecMerge == InitMerge /\ [][NextMerge]_vars

----------------------------------------------------------------------------
(* Vocabulary of the properties *)

Range(q) == {q[i] : i \in DOMAIN q}

\* the part of the line l after its last path separator
Base(l) ==
    LET k == CHOOSE k \in 0..Len(l) :
                 /\ k = 0 \/ l[k] = SEP
                 /\ \A j \in (k + 1)..Len(l) : l[j] # SEP
    IN  [j \in 1..(Len(l) - k) |-> l[k + j]]

\* the non-empty string t occurs in s
Occurs(t, s) ==
    \E i \in 1..Len(s) : \A j \in 1..Len(t) : i + j - 1 <= Len(s) /\ s[i + j - 1] = t[j]

\* the lines of the manifest f as the filter reads them
Lines(f) == splitlines(read(lists[f].text))

\* line i of manifest f names a file of the current subject and session
Retained(f, i) ==
    /\ Occurs(sub, Base(Lines(f)[i]))
    /\ Occurs(ses, Base(Lines(f)[i]))

RetainedSet(f) == {i \in DOMAIN Lines(f) : Retained(f, i)}

Entry(f, i) == ses \o <<SEP>> \o Base(Lines(f)[i])

Membership(f, out) ==
    /\ Len(out) = Cardinality(RetainedSet(f))
    /\ \A i \in DOMAIN Lines(f) : Retained(f, i) <=> Entry(f, i) \in Range(out)

InOrder(f, out) ==
    /\ Len(out) = Cardinality(RetainedSet(f))
    /\ \A i \in RetainedSet(f) :
          out[Cardinality({j \in RetainedSet(f) : j <= i})] = Entry(f, i)

FuncsReady == pc \in {"get_dwi_list", "for_ses"}
DwisReady == pc = "for_ses"

\* C4: a manifest line contributes an entry to the output of get_func_list
\* and of get_dwi_list exactly when its basename contains the subject id and
\* the session id; the directory part of the line plays no role
C4_FilterMembership ==
    /\ FuncsReady => Membership(FUNC_LIST_FILE, funcs)
    /\ DwisReady => Membership(DWI_LIST_FILE, dwis)

\* a line whose directory part names the subject and the session but whose
\* basename does not, next to nothing else, has been filtered out
C4_Witness ==
    /\ pc = "for_ses"
    /\ \E i \in DOMAIN Lines(DWI_LIST_FILE) :
          /\ Occurs(sub, Lines(DWI_LIST_FILE)[i])
          /\ Occurs(ses, Lines(DWI_LIST_FILE)[i])
          /\ ~Retained(DWI_LIST_FILE, i)
    /\ funcs = <<>>
    /\ dwis = <<>>

\* C5: the output of the filter is, in manifest line order, one entry
\* sessionId + "/" + basename per retained line, repeated lines repeated
C5_FilterFormAndOrder ==
    /\ FuncsReady => InOrder(FUNC_LIST_FILE, funcs)
    /\ DwisReady => InOrder(DWI_LIST_FILE, dwis)

\* the same file listed twice has given two equal entries
C5_Witness ==
    /\ pc = "for_ses"
    /\ Len(dwis) = 2
    /\ dwis[1] = dwis[2]
    /\ Len(funcs) = 2

----------------------------------------------------------------------------
(* Properties of add_intended_for, checked under SpecMerge *)

HasKey(content, k) == \E i \in DOMAIN content.pairs : content.pairs[i][1] = k

\* the value a JSON object text gives the key k: that of its last member k
ValueOf(content, k) ==
    LET last == CHOOSE i \in DOMAIN content.pairs :
                    /\ content.pairs[i][1] = k
                    /\ \A j \in DOMAIN content.pairs : content.pairs[j][1] = k => j <= i
    IN  content.pairs[last][2]

KeysOf(content) == {content.pairs[i][1] : i \in DOMAIN content.pairs}

Merged == pc \in {"merged", "merged_twice"}

\* C2: after add_intended_for every key other than IntendedFor that the
\* record had is still there with its value, and no other key was added
C2_OtherKeysPreserved ==
    Merged =>
        \A k \in (KeysOf(fs[json_file]) \cup KeysOf(fs0[json_file])) \ {IntendedFor} :
            /\ HasKey(fs[json_file], k) <=> HasKey(fs0[json_file], k)
            /\ HasKey(fs0[json_file], k) =>
                   ValueOf(fs[json_file], k) = ValueOf(fs0[json_file], k)

\* a record with two other keys and an old IntendedFor value between them
\* has been merged
C2_Witness ==
    /\ pc = "merged"
    /\ Len(fs0[json_file].pairs) = 3
    /\ fs0[json_file].pairs[1][1] = "EchoTime"
    /\ fs0[json_file].pairs[2][1] = IntendedFor
    /\ fs0[json_file].pairs[3][1] = "PhaseEncodingDirection"
    /\ fs[json_file] # fs0[json_file]

\* C3: after add_intended_for the record has exactly one IntendedFor member
\* and its value is the reference list given, whatever the value before
C3_TargetOverwritten ==
    Merged =>
        /\ fs[json_file].kind = "object"
        /\ Cardinality({i \in DOMAIN fs[json_file].pairs :
                           fs[json_file].pairs[i][1] = IntendedFor}) = 1
        /\ ValueOf(fs[json_file], IntendedFor) = funcs

\* a non-empty old value has been replaced by a list with a repeated element
C3_Witness ==
    /\ pc = "merged"
    /\ HasKey(fs0[json_file], IntendedFor)
    /\ ValueOf(fs0[json_file], IntendedFor) # <<>>
    /\ Len(funcs) = 2
    /\ funcs[1] = funcs[2]
    /\ ValueOf(fs0[json_file], IntendedFor) # funcs

\* C8: a second add_intended_for with the same list leaves the file with the
\* content the first one gave it
C8_MergeIdempotent ==
    pc = "merged_twice" => fs[json_file] = fs1[json_file]

\* the first call changed the file, the second call was made
C8_Witness ==
    /\ pc = "merged_twice"
    /\ fs1[json_file] # fs0[json_file]
    /\ funcs # <<>>
    /\ Len(fs0[json_file].pairs) > Len(fs[json_file].pairs)

----------------------------------------------------------------------------
(* Properties of the run, checked under Spec *)

Acqs == {"fMRI", "dwi"}
ap_of(acq) == IF acq = "fMRI" THEN AP_FMRI ELSE AP_DWI
pa_of(acq) == IF acq = "fMRI" THEN PA_FMRI ELSE PA_DWI
AP(u, acq) == fmap_file(u[1], u[2], ap_of(acq))
PA(u, acq) == fmap_file(u[1], u[2], pa_of(acq))

\* the filter result of the manifest of acq for the subject/session u
ListFor(u, acq) ==
    IF acq = "fMRI"
    THEN get_func_list(lists[FUNC_LIST_FILE].text, u[1], u[2])
    ELSE get_dwi_list(lists[DWI_LIST_FILE].text, u[1], u[2])

Complete(u, acq) == exists(fs0, AP(u, acq)) /\ exists(fs0, PA(u, acq))
Half(u, acq) == exists(fs0, AP(u, acq)) # exists(fs0, PA(u, acq))

Count(op, p) == Cardinality({i \in DOMAIN io : io[i] = Event(op, p)})
Touched(p) == \E i \in DOMAIN io : io[i].path = p

\* the record p carries the list of its pair
Updated(p, u, acq) ==
    /\ fs[p].kind = "object"
    /\ HasKey(fs[p], IntendedFor)
    /\ ValueOf(fs[p], IntendedFor) = ListFor(u, acq)

\* C1: when exactly one record of a pair exists at the start of the run,
\* the run neither loads nor writes either of the two, and both are at every
\* moment as they were at the start
C1_AllOrNothing ==
    \A u \in Units(tree), acq \in Acqs :
        Half(u, acq) =>
            /\ ~Touched(AP(u, acq))
            /\ ~Touched(PA(u, acq))
            /\ fs[AP(u, acq)] = fs0[AP(u, acq)]
            /\ fs[PA(u, acq)] = fs0[PA(u, acq)]

\* a run that rewrote a complete pair has passed a half pair and ended
C1_Witness ==
    /\ pc = "done"
    /\ \E u \in Units(tree), acq \in Acqs : Half(u, acq)
    /\ \E i \in DOMAIN io : io[i].op = "write"

\* C6: after a run that ends without error both records of every complete
\* pair carry the key IntendedFor with the filter result of the pair's own
\* manifest for that subject and session, the empty list included
C6_PairedUpdate ==
    pc = "done" =>
        \A u \in Units(tree), acq \in Acqs :
            Complete(u, acq) =>
                /\ Updated(AP(u, acq), u, acq)
                /\ Updated(PA(u, acq), u, acq)

\* a complete dwi pair whose filter result is empty, while the func manifest
\* has entries for the same subject and session, after a run without error
C6_Witness ==
    /\ pc = "done"
    /\ \E u \in Units(tree) :
          /\ Complete(u, "dwi")
          /\ ListFor(u, "dwi") = <<>>
          /\ ListFor(u, "fMRI") # <<>>
          /\ ValueOf(fs[PA(u, "dwi")], IntendedFor) = <<>>

\* C7: a failure is the last thing the run does, the run is over exactly
\* when one occurred or the loops ran out, and every record rewritten before
\* the failure still has its updated content
C7_AbortWithoutRollback ==
    /\ \A i \in DOMAIN io : io[i].op = "raise" => i = Len(io)
    /\ (io # <<>> /\ io[Len(io)].op = "raise") <=> pc = "aborted"
    /\ \A i \in DOMAIN io :
          io[i].op = "write" =>
              \E u \in Units(tree), acq \in Acqs :
                  /\ io[i].path \in {AP(u, acq), PA(u, acq)}
                  /\ Updated(io[i].path, u, acq)

\* a run that failed after it had rewritten a record
C7_Witness ==
    /\ pc = "aborted"
    /\ \E i \in DOMAIN io : io[i].op = "write"

LoadedThenWrittenOnce(p) ==
    /\ Count("load", p) = 1
    /\ Count("write", p) = 1
    /\ \A i, j \in DOMAIN io :
          io[i] = Event("load", p) /\ io[j] = Event("write", p) => i < j

\* C9 as stated: over a complete run each of the four records of every
\* subject/session is loaded exactly once and rewritten exactly once
C9_Original ==
    pc = "done" =>
        \A u \in Units(tree), acq \in Acqs :
            /\ LoadedThenWrittenOnce(AP(u, acq))
            /\ LoadedThenWrittenOnce(PA(u, acq))

\* C9 amended: over a complete run each record of a pair whose two records
\* both exist is loaded exactly once and then rewritten exactly once, and a
\* record of any other pair is neither loaded nor rewritten
C9_OncePerCompletePair ==
    pc = "done" =>
        \A u \in Units(tree), acq \in Acqs :
            \A p \in {AP(u, acq), PA(u, acq)} :
                IF Complete(u, acq)
                THEN LoadedThenWrittenOnce(p)
                ELSE Count("load", p) = 0 /\ Count("write", p) = 0

\* a complete run over a tree with a complete pair and a half pair
C9_Witness ==
    /\ pc = "done"
    /\ \E u \in Units(tree), acq \in Acqs : Complete(u, acq)
    /\ \E u \in Units(tree), acq \in Acqs : Half(u, acq)

\* C10 as stated: when the run is over, by completion or by an error, the
\* two records of every pair are both updated or both as they were
C10_PairConsistent ==
    pc \in {"done", "aborted"} =>
        \A u \in Units(tree), acq \in Acqs :
            \/ Updated(AP(u, acq), u, acq) /\ Updated(PA(u, acq), u, acq)
            \/ fs[AP(u, acq)] = fs0[AP(u, acq)] /\ fs[PA(u, acq)] = fs0[PA(u, acq)]

====
